---- MODULE Spec2Model ----
(***************************************************************************)
(* The QA job queue of auto-qa-sheets (src/lib/queue.ts, class JobQueue):  *)
(* an in-memory job table, a FIFO list of job ids and one worker loop that *)
(* runs the stages Render, Analyze, Report and Publish of one job at a     *)
(* time.  The worker is an async function: it runs without interruption    *)
(* from one await to the next, so every action below is one such stretch   *)
(* of code, and the variable pc names the await the worker is suspended    *)
(* at.  addJob is synchronous and may run whenever the worker is           *)
(* suspended.                                                              *)
(***************************************************************************)
EXTENDS Integers, Sequences, FiniteSets, TLC

\* ---------------------------------------------------------------- bounds
\* Number of addJob calls in a behaviour.
MaxAdmits == 3
\* Number of collaborator calls that fail in a behaviour (a Render that
\* throws or misses an angle, an Analyze, Report or Publish that degrades).
\* Once it is used up every call succeeds, so the worker is never blocked
\* by it.
MaxFaults == 3

\* ------------------------------------------------------ program constants
\* JobQueue.MAX_JOBS (100 in the source); scaled down so that the table
\* fills and cleanupOldJobs evicts within MaxAdmits admissions.
MAX_JOBS == 2
\* maxRetries of every job (addJob).
MaxRetries == 3
\* Number of camera angles of processScreenshots (front, back, left, right,
\* isometric), numbered 1..NumAngles in the order they are taken.
NumAngles == 5

\* ----------------------------------------------------------------- inputs
\* What addJob is called with: the article, the number of reference URLs
\* (references.length) and whether sheetId and rowIndex are given.
Inputs ==
    {[articleId |-> "A1", refs |-> 1, sheet |-> TRUE],
     [articleId |-> "A2", refs |-> 0, sheet |-> FALSE],
     [articleId |-> "A3", refs |-> 1, sheet |-> FALSE]}
\* Message of the error processScreenshots throws when no angle was captured.
ErrZero == "Screenshot processing failed: No screenshots were successfully captured"
\* Message of the error processScreenshots throws when the download or the
\* browser launch fails, before any angle is tried.
ErrDownload == "Screenshot processing failed: Failed to download GLB"
\* Message of the error the import of aiAnalysis throws when the environment
\* has no OPENAI_API_KEY (the module builds its AIAnalyzer when it loads).
ErrNoKey == "OPENAI_API_KEY environment variable is required"
\* What the captures of one Render attempt can be: for each angle, whether
\* takeScreenshot returned (TRUE) or threw (FALSE).
AllCaptured == [a \in 1..NumAngles |-> TRUE]
NoneCaptured == [a \in 1..NumAngles |-> FALSE]
Masks ==
    {AllCaptured, NoneCaptured, [a \in 1..NumAngles |-> a \notin {2, 4}]}

VARIABLES
    job,          \* the QAJob objects, by id: those in the Map and the one
                  \* the worker holds (an object nothing refers to is gone)
    store,        \* JobQueue.jobs: the ids in the Map, in insertion order
    queue,        \* JobQueue.queue
    isProcessing, \* JobQueue.isProcessing
    pc,           \* the await the worker is suspended at
    cur,          \* the job the worker holds (0: none)
    shots,        \* screenshotResult.screenshots of the running attempt
    aiRes,        \* aiAnalysisResult of the running attempt
    pdf,          \* pdfUrl of the running attempt (TRUE: a URL)
    clock,        \* Date.now(), advanced by every admission that creates
                  \* a job; the k-th job created has id k
    admits,       \* number of addJob calls so far
    ret,          \* what the last addJob returned: [id, created]
    lastOutcome,  \* how the collaborator call the worker last resumed from
                  \* ended, in the running attempt ("none": no call yet)
    calls,        \* per job, how many times each collaborator was called
    faults,       \* number of collaborator calls that failed so far
    keyMissing    \* the process runs without OPENAI_API_KEY

vars == <<job, store, queue, isProcessing, pc, cur, shots, aiRes, pdf, clock,
          admits, ret, lastOutcome, calls, faults, keyMissing>>

\* ------------------------------------------------------------------ logs
\* A line of processingLogs: what it says (tag), the message it quotes and
\* the number it quotes.
Line(tag) == [tag |-> tag, msg |-> "", n |-> 0]
LineMsg(tag, msg) == [tag |-> tag, msg |-> msg, n |-> 0]
LineNum(tag, n) == [tag |-> tag, msg |-> "", n |-> n]

\* ------------------------------------------------------------- the table
Ids == DOMAIN job

InStore(st, id) == \E i \in 1..Len(st) : st[i] = id

IsActive(r) == r.status \in {"pending", "processing"}

\* findJobByArticleId: the first job of the Map, in insertion order, with
\* this articleId (0: undefined).
RECURSIVE FindJobByArticleId(_, _, _)
FindJobByArticleId(st, jb, a) ==
    IF st = <<>> THEN 0
    ELSE IF jb[Head(st)].articleId = a THEN Head(st)
    ELSE FindJobByArticleId(Tail(st), jb, a)

\* The job object addJob builds.
NewJob(a, refs, sheet, now) ==
    [articleId |-> a, refs |-> refs, sheet |-> sheet, status |-> "pending",
     createdAt |-> now, startedAt |-> FALSE, completedAt |-> FALSE,
     retries |-> 0, maxRetries |-> MaxRetries, error |-> "",
     screenshots |-> <<>>, modelStats |-> FALSE, aiAnalysis |-> "none",
     pdfUrl |-> FALSE,
     processingLogs |-> <<Line("created")>>]

\* InsertByCreated with the comparison turned round: newest first.
RECURSIVE InsertByCreatedDescending(_, _, _)
InsertByCreatedDescending(sorted, x, jb) ==
    IF sorted = <<>> THEN <<x>>
    ELSE IF jb[Head(sorted)].createdAt >= jb[x].createdAt
         THEN <<Head(sorted)>> \o InsertByCreatedDescending(Tail(sorted), x, jb)
         ELSE <<x>> \o sorted

\* Array.prototype.sort by createdAt ascending (stable): insertion of x
\* after every element that is not later than it.
RECURSIVE InsertByCreated(_, _, _)
InsertByCreated(sorted, x, jb) ==
    IF sorted = <<>> THEN <<x>>
    ELSE IF jb[Head(sorted)].createdAt <= jb[x].createdAt
         THEN <<Head(sorted)>> \o InsertByCreated(Tail(sorted), x, jb)
         ELSE <<x>> \o sorted

RECURSIVE SortByCreated(_, _)
SortByCreated(st, jb) ==
    IF st = <<>> THEN <<>>
    ELSE InsertByCreated(SortByCreated(SubSeq(st, 1, Len(st) - 1), jb),
                         st[Len(st)], jb)

\* CleanupOldJobs without its test of the status.
CleanupOldJobsAnyStatus(st, jb) ==
    IF Len(st) <= MAX_JOBS THEN st
    ELSE LET sorted == SortByCreated(st, jb)
             toRemove == SubSeq(sorted, 1, Len(sorted) - MAX_JOBS)
         IN SelectSeq(st, LAMBDA id : ~InStore(toRemove, id))

\* cleanupOldJobs: the table after it.  The jobs over MAX_JOBS, oldest
\* first, are deleted unless they are processing.
CleanupOldJobs(st, jb) ==
    IF Len(st) <= MAX_JOBS THEN st
    ELSE LET sorted == SortByCreated(st, jb)
             toRemove == SubSeq(sorted, 1, Len(sorted) - MAX_JOBS)
             Deleted(id) == /\ InStore(toRemove, id)
                            /\ jb[id].status # "processing"
         IN SelectSeq(st, LAMBDA id : ~Deleted(id))

\* getQueueStatus: pending is the length of the queue, the other counts
\* are taken over the records of the Map.
CountStatus(st, jb, status) ==
    Cardinality({i \in 1..Len(st) : jb[st[i]].status = status})

GetQueueStatus(st, jb, q, flag) ==
    [pending |-> Len(q),
     processing |-> CountStatus(st, jb, "processing"),
     completed |-> CountStatus(st, jb, "completed"),
     failed |-> CountStatus(st, jb, "failed"),
     total |-> Len(st),
     isProcessing |-> flag]

\* ------------------------------------------------------------ the stages
\* CaptureAngles that gives up the remaining angles at the first failure.
RECURSIVE CaptureAnglesAborting(_, _)
CaptureAnglesAborting(mask, a) ==
    IF a = 0 THEN [screenshots |-> <<>>, logs |-> <<>>]
    ELSE LET before == CaptureAnglesAborting(mask, a - 1)
         IN IF \E b \in 1..(a - 1) : ~mask[b]
            THEN before
            ELSE IF mask[a]
            THEN [screenshots |-> Append(before.screenshots, a),
                  logs |-> before.logs \o
                      <<LineNum("taking", a), LineNum("shot_ok", a)>>]
            ELSE [screenshots |-> before.screenshots,
                  logs |-> before.logs \o
                      <<LineNum("taking", a), LineNum("shot_failed", a)>>]

\* processScreenshots, the loop over the angles: the screenshots and the
\* log lines after the angles 1..a, given which captures succeed.
RECURSIVE CaptureAngles(_, _)
CaptureAngles(mask, a) ==
    IF a = 0 THEN [screenshots |-> <<>>, logs |-> <<>>]
    ELSE LET before == CaptureAngles(mask, a - 1)
         IN IF mask[a]
            THEN [screenshots |-> Append(before.screenshots, a),
                  logs |-> before.logs \o
                      <<LineNum("taking", a), LineNum("shot_ok", a)>>]
            ELSE [screenshots |-> before.screenshots,
                  logs |-> before.logs \o
                      <<LineNum("taking", a), LineNum("shot_failed", a)>>]

\* processScreenshots once the GLB is downloaded: it throws when no angle
\* was captured and returns the screenshots and its own log otherwise.
RenderThrows(mask) == Len(CaptureAngles(mask, NumAngles).screenshots) = 0

RenderResult(mask) ==
    LET c == CaptureAngles(mask, NumAngles)
    IN [screenshots |-> c.screenshots,
        logs |-> <<Line("render_start"), Line("stats")>> \o c.logs \o
                 <<Line("browser_closed"),
                   LineNum("render_done", Len(c.screenshots))>>]

\* ShouldAnalyze without its test of the references.
ShouldAnalyzeIgnoringRefs(screenshots, refs) == Len(screenshots) > 0

\* executeQAProcessing: whether Analyze runs.
ShouldAnalyze(screenshots, refs) == Len(screenshots) > 0 /\ refs > 0

\* AnalyzeCatchLogs without its second push.
AnalyzeCatchLogsShort(msg) == <<LineMsg("ai_failed", msg)>>

\* The lines the catch of a failed Analyze appends.
AnalyzeCatchLogs(msg) ==
    <<LineMsg("ai_failed", msg), Line("continuing_without_ai")>>

\* The lines the catch of a failed Report appends.
ReportCatchLogs(msg) ==
    <<LineMsg("pdf_failed", msg), Line("continuing_without_pdf")>>

\* The line the catch of a failed Publish appends.
PublishCatchLogs(msg) == <<LineMsg("sheet_failed", msg)>>

\* ProcessJobStart that leaves the status as it was.
ProcessJobStartKeepingStatus(r) ==
    [r EXCEPT !.startedAt = TRUE,
              !.processingLogs = Append(@, Line("started"))]

\* processJob, up to its first await.
ProcessJobStart(r) ==
    [r EXCEPT !.status = "processing", !.startedAt = TRUE,
              !.processingLogs = Append(@, Line("started"))]

\* CompleteJob that forgets to store the screenshots.
CompleteJobWithoutScreenshots(r, res) ==
    [r EXCEPT !.status = "completed", !.completedAt = TRUE,
              !.modelStats = res.modelStats,
              !.aiAnalysis = res.aiAnalysis,
              !.pdfUrl = res.pdfUrl,
              !.processingLogs = @ \o <<Line("completed")>>]

\* CompleteJob that does not store the analysis.
CompleteJobWithoutAnalysis(r, res) ==
    [r EXCEPT !.status = "completed", !.completedAt = TRUE,
              !.screenshots = res.screenshots,
              !.modelStats = res.modelStats,
              !.aiAnalysis = "none",
              !.pdfUrl = res.pdfUrl,
              !.processingLogs = @ \o <<Line("completed")>>]

\* processJob after executeQAProcessing returned res.
CompleteJob(r, res) ==
    [r EXCEPT !.status = "completed", !.completedAt = TRUE,
              !.screenshots = res.screenshots,
              !.modelStats = res.modelStats,
              !.aiAnalysis = res.aiAnalysis,
              !.pdfUrl = res.pdfUrl,
              !.processingLogs = @ \o
                  <<Line("completed"),
                    LineNum("generated", Len(res.screenshots))>> \o
                  (IF res.aiAnalysis # "none" THEN <<Line("ai_status")>>
                   ELSE <<>>) \o
                  (IF res.pdfUrl THEN <<Line("pdf_report")>> ELSE <<>>) \o
                  (IF res.modelStats THEN <<Line("model_stats")>> ELSE <<>>)]

\* ShouldPublish without its test of sheetId and rowIndex.
ShouldPublishWithoutTarget(r, res) == res.pdfUrl

\* processJob: whether Publish runs.
ShouldPublish(r, res) == r.sheet /\ res.pdfUrl

\* RecordError that starts the log afresh with the error.
RecordErrorResettingLogs(r, msg) ==
    [r EXCEPT !.retries = @ + 1, !.error = msg,
              !.processingLogs =
                  <<[tag |-> "error", msg |-> msg, n |-> r.retries + 1]>>]

\* handleJobError, its first three statements.
RecordError(r, msg) ==
    [r EXCEPT !.retries = @ + 1, !.error = msg,
              !.processingLogs =
                  Append(@, [tag |-> "error", msg |-> msg, n |-> r.retries + 1])]

\* ShouldRetry with <= for <: one attempt too many.
ShouldRetryInclusive(r) == r.retries <= r.maxRetries

\* ShouldRetry comparing the count before the increment: one attempt too few.
ShouldRetryEarly(r) == r.retries + 1 < r.maxRetries

\* ShouldRetry that gives up at once.
ShouldRetryNever(r) == FALSE

\* handleJobError: whether the job is retried (r: after RecordError).
ShouldRetry(r) == r.retries < r.maxRetries

\* HandleJobError that does not keep the incremented count.
HandleJobErrorNotCounting(r, msg) ==
    [r EXCEPT !.status = "pending", !.error = msg,
              !.processingLogs =
                  @ \o <<[tag |-> "error", msg |-> msg, n |-> r.retries + 1],
                         LineNum("retry_scheduled", r.retries + 1)>>]

\* HandleJobError run a second time for the same failure, as it would be
\* if the exception also reached the catch of the loop.
HandleJobErrorTwice(r, msg) ==
    LET once == RecordError(r, msg)
        e == RecordError(
                 [once EXCEPT !.processingLogs =
                      Append(@, LineNum("retry_scheduled", once.retries))],
                 msg)
    IN IF ShouldRetry(e)
       THEN [e EXCEPT !.status = "pending",
                      !.processingLogs =
                          Append(@, LineNum("retry_scheduled", e.retries))]
       ELSE [e EXCEPT !.status = "failed", !.completedAt = TRUE,
                      !.processingLogs =
                          Append(@, LineNum("failed_permanently", e.retries))]

\* handleJobError: the job after it.
HandleJobError(r, msg) ==
    LET e == RecordError(r, msg)
    IN IF ShouldRetry(e)
       THEN [e EXCEPT !.status = "pending",
                      !.processingLogs =
                          Append(@, LineNum("retry_scheduled", e.retries))]
       ELSE [e EXCEPT !.status = "failed", !.completedAt = TRUE,
                      !.processingLogs =
                          Append(@, LineNum("failed_permanently", e.retries))]

\* QueueAfterError that pushes the id outside the retry branch.
QueueAfterErrorAlways(q, id, r, msg) == Append(q, id)

\* handleJobError: the queue after it.
QueueAfterError(q, id, r, msg) ==
    IF ShouldRetry(RecordError(r, msg)) THEN Append(q, id) ELSE q

\* What generatePDF returns as its own log.
ReportLogs ==
    <<Line("pdf_start"), Line("annotating"), Line("annotated"),
      Line("pdf_generating"), Line("pdf_bytes"), Line("pdf_uploading"),
      Line("pdf_uploaded"), Line("tmp_cleaned")>>

\* ------------------------------------------------------------ the worker
NoCalls == [render |-> 0, analyze |-> 0, report |-> 0, publish |-> 0]

Called(stage) == [calls EXCEPT ![cur][stage] = @ + 1]

Logged(r, lines) == [r EXCEPT !.processingLogs = @ \o lines]

\* The objects still referred to: by the Map or by the worker.
Live(f, st, c) == [id \in {i \in DOMAIN f : InStore(st, i) \/ i = c} |-> f[id]]

\* startProcessing: an id whose job is no longer in the Map is dropped.
RECURSIVE SkipMissing(_, _)
SkipMissing(q, st) ==
    IF q = <<>> THEN <<>>
    ELSE IF InStore(st, Head(q)) THEN q
    ELSE SkipMissing(Tail(q), st)

\* RunLoop that leaves the flag set when it ends.
RunLoopKeepingFlag(q, st, jb, cl) ==
    LET q1 == SkipMissing(q, st)
    IN /\ lastOutcome' = "none"
       /\ shots' = <<>>
       /\ aiRes' = "none"
       /\ pdf' = FALSE
       /\ isProcessing' = TRUE
       /\ IF q1 = <<>>
          THEN /\ queue' = <<>>
               /\ pc' = "idle"
               /\ cur' = 0
               /\ job' = Live(jb, st, 0)
               /\ calls' = Live(cl, st, 0)
          ELSE /\ queue' = Tail(q1)
               /\ pc' = "import"
               /\ cur' = Head(q1)
               /\ job' = [Live(jb, st, Head(q1))
                            EXCEPT ![Head(q1)] = ProcessJobStart(@)]
               /\ calls' = Live(cl, st, Head(q1))

\* startProcessing, its while loop from the top to the next await (the
\* imports of executeQAProcessing, reached through processJob) or, with the
\* queue drained, to its end.
RunLoop(q, st, jb, cl) ==
    LET q1 == SkipMissing(q, st)
    IN /\ lastOutcome' = "none"
       /\ shots' = <<>>
       /\ aiRes' = "none"
       /\ pdf' = FALSE
       /\ IF q1 = <<>>
          THEN /\ queue' = <<>>
               /\ isProcessing' = FALSE
               /\ pc' = "idle"
               /\ cur' = 0
               /\ job' = Live(jb, st, 0)
               /\ calls' = Live(cl, st, 0)
          ELSE /\ queue' = Tail(q1)
               /\ isProcessing' = TRUE
               /\ pc' = "import"
               /\ cur' = Head(q1)
               /\ job' = [Live(jb, st, Head(q1))
                            EXCEPT ![Head(q1)] = ProcessJobStart(@)]
               /\ calls' = Live(cl, st, Head(q1))

\* processJob after executeQAProcessing returned res for the job r: the
\* job completes, and Publish is called when it has a target and a report.
Finish(r, res) ==
    LET c == CompleteJob(r, res)
    IN /\ shots' = <<>>
       /\ aiRes' = "none"
       /\ pdf' = FALSE
       /\ IF ShouldPublish(c, res)
          THEN /\ job' = [job EXCEPT ![cur] = Logged(c, <<Line("sheet_updating")>>)]
               /\ pc' = "publish"
               /\ calls' = Called("publish")
          ELSE /\ job' = [job EXCEPT ![cur] = c]
               /\ pc' = "delay"
               /\ UNCHANGED calls

\* processJob when executeQAProcessing threw: the catch calls handleJobError.
Fail(msg) ==
    /\ job' = [job EXCEPT ![cur] = HandleJobError(@, msg)]
    /\ queue' = QueueAfterError(queue, cur, job[cur], msg)
    /\ pc' = "delay"
    /\ shots' = <<>>
    /\ aiRes' = "none"
    /\ pdf' = FALSE
    /\ UNCHANGED calls

Init ==
    /\ job = << >>
    /\ store = <<>>
    /\ queue = <<>>
    /\ isProcessing = FALSE
    /\ pc = "idle"
    /\ cur = 0
    /\ shots = <<>>
    /\ aiRes = "none"
    /\ pdf = FALSE
    /\ clock = 0
    /\ admits = 0
    /\ ret = [id |-> 0, created |-> FALSE]
    /\ lastOutcome = "none"
    /\ calls = <<>>
    /\ faults = 0
    /\ keyMissing \in BOOLEAN

\* LoopRunning that never sees a running loop.
LoopRunningNever(flag) == FALSE

\* LoopRunning that always sees a running loop: addJob starts none.
LoopRunningAlways(flag) == TRUE

\* startProcessing, its guard: it returns at once when a loop is running.
LoopRunning(flag) == flag

\* addJob, with the cleanupOldJobs and the startProcessing it calls.
AddJob(a, refs, sheet) ==
    /\ admits < MaxAdmits
    /\ admits' = admits + 1
    /\ UNCHANGED <<faults, keyMissing>>
    /\ LET existing == FindJobByArticleId(store, job, a)
       IN IF existing # 0 /\ IsActive(job[existing])
          THEN /\ ret' = [id |-> existing, created |-> FALSE]
               /\ UNCHANGED <<job, store, queue, isProcessing, pc, cur, shots,
                              aiRes, pdf, clock, lastOutcome, calls>>
          ELSE LET id == clock + 1
                   jb1 == job @@ (id :> NewJob(a, refs, sheet, clock + 1))
                   cl1 == calls @@ (id :> NoCalls)
                   q1 == Append(queue, id)
                   st1 == CleanupOldJobs(Append(store, id), jb1)
               IN /\ ret' = [id |-> id, created |-> TRUE]
                  /\ clock' = clock + 1
                  /\ store' = st1
                  /\ IF LoopRunning(isProcessing)
                     THEN /\ job' = Live(jb1, st1, cur)
                          /\ calls' = Live(cl1, st1, cur)
                          /\ queue' = q1
                          /\ UNCHANGED <<isProcessing, pc, cur, shots, aiRes,
                                         pdf, lastOutcome>>
                     ELSE RunLoop(q1, st1, jb1, cl1)

\* executeQAProcessing's import of aiAnalysis throws: the attempt fails
\* before Render is called.
ImportFails ==
    /\ pc = "import"
    /\ keyMissing
    /\ lastOutcome' = "import_failed"
    /\ Fail(ErrNoKey)
    /\ UNCHANGED <<store, isProcessing, cur, clock, admits, ret, faults,
                   keyMissing>>

\* executeQAProcessing resumes after its imports and calls Render.
ImportDone ==
    /\ pc = "import"
    /\ ~keyMissing
    /\ job' = [job EXCEPT ![cur] = Logged(@, <<Line("render_starting")>>)]
    /\ calls' = Called("render")
    /\ pc' = "render"
    /\ UNCHANGED <<store, queue, isProcessing, cur, shots, aiRes, pdf, clock,
                   admits, ret, lastOutcome, faults, keyMissing>>

\* Render throws before any angle is tried (download, browser launch).
RenderDownloadFails ==
    /\ pc = "render"
    /\ faults < MaxFaults
    /\ faults' = faults + 1
    /\ lastOutcome' = "render_download_failed"
    /\ Fail(ErrDownload)
    /\ UNCHANGED <<store, isProcessing, cur, clock, admits, ret, keyMissing>>

\* Render went through its angles and captured none: it throws.
RenderZero(mask) ==
    /\ pc = "render"
    /\ faults < MaxFaults
    /\ faults' = faults + 1
    /\ RenderThrows(mask)
    /\ lastOutcome' = "render_zero"
    /\ Fail(ErrZero)
    /\ UNCHANGED <<store, isProcessing, cur, clock, admits, ret, keyMissing>>

\* Render returns at least one image: Analyze is called, or skipped and
\* the job completes.
RenderReturns(mask) ==
    /\ pc = "render"
    /\ IF mask = AllCaptured
       THEN UNCHANGED faults
       ELSE faults < MaxFaults /\ faults' = faults + 1
    /\ ~RenderThrows(mask)
    /\ lastOutcome' = "render_ok"
    /\ LET res == RenderResult(mask)
           r == Logged(job[cur], res.logs)
       IN IF ShouldAnalyze(res.screenshots, r.refs)
          THEN /\ job' = [job EXCEPT ![cur] =
                     Logged(r, <<LineNum("ai_starting", Len(res.screenshots)),
                                 Line("model_statistics")>>)]
               /\ shots' = res.screenshots
               /\ calls' = Called("analyze")
               /\ pc' = "analyze"
               /\ UNCHANGED <<aiRes, pdf>>
          ELSE Finish(Logged(r, <<Line("skipping_ai")>>),
                      [screenshots |-> res.screenshots, modelStats |-> TRUE,
                       aiAnalysis |-> "none", pdfUrl |-> FALSE])
    /\ UNCHANGED <<store, queue, isProcessing, cur, clock, admits, ret,
                   keyMissing>>

\* Analyze returns a result (of the declared type AIAnalysisResult; the
\* optional scores, which add one log line, are left out): Report is called.
AnalyzeReturns ==
    /\ pc = "analyze"
    /\ UNCHANGED faults
    /\ lastOutcome' = "analyze_ok"
    /\ aiRes' = "ok"
    /\ job' = [job EXCEPT ![cur] =
          [Logged(@, <<Line("ai_done"), Line("ai_result_status"),
                       Line("ai_found"), Line("pdf_starting")>>)
           EXCEPT !.aiAnalysis = "ok", !.screenshots = shots,
                  !.modelStats = TRUE]]
    /\ calls' = Called("report")
    /\ pc' = "report"
    /\ UNCHANGED <<store, queue, isProcessing, cur, shots, pdf, clock, admits,
                   ret, keyMissing>>

\* AnalyzeThrows without the catch around Analyze: the exception reaches
\* processJob's catch.
AnalyzeRethrows ==
    /\ pc = "analyze"
    /\ faults < MaxFaults
    /\ faults' = faults + 1
    /\ lastOutcome' = "analyze_threw"
    /\ Fail("AI analysis failed")
    /\ UNCHANGED <<store, isProcessing, cur, clock, admits, ret, keyMissing>>

\* Analyze throws: the catch logs it and the job completes without analysis.
AnalyzeThrows ==
    /\ pc = "analyze"
    /\ faults < MaxFaults
    /\ faults' = faults + 1
    /\ lastOutcome' = "analyze_threw"
    /\ Finish(Logged(job[cur], AnalyzeCatchLogs("AI analysis failed")),
              [screenshots |-> shots, modelStats |-> TRUE,
               aiAnalysis |-> "none", pdfUrl |-> FALSE])
    /\ UNCHANGED <<store, queue, isProcessing, cur, clock, admits, ret,
                   keyMissing>>

\* Report returns a URL (with or without the annotations, whose failure
\* generatePDF absorbs by falling back to the plain screenshots).
ReportReturns ==
    /\ pc = "report"
    /\ UNCHANGED faults
    /\ lastOutcome' = "report_ok"
    /\ Finish(Logged(job[cur], ReportLogs \o <<Line("pdf_generated")>>),
              [screenshots |-> shots, modelStats |-> TRUE,
               aiAnalysis |-> aiRes, pdfUrl |-> TRUE])
    /\ UNCHANGED <<store, queue, isProcessing, cur, clock, admits, ret,
                   keyMissing>>

\* Report throws: the catch logs it and the job completes without a URL.
ReportThrows ==
    /\ pc = "report"
    /\ faults < MaxFaults
    /\ faults' = faults + 1
    /\ lastOutcome' = "report_threw"
    /\ Finish(Logged(job[cur], ReportCatchLogs("PDF generation failed")),
              [screenshots |-> shots, modelStats |-> TRUE,
               aiAnalysis |-> aiRes, pdfUrl |-> FALSE])
    /\ UNCHANGED <<store, queue, isProcessing, cur, clock, admits, ret,
                   keyMissing>>

\* Publish returns.
PublishReturns ==
    /\ pc = "publish"
    /\ UNCHANGED faults
    /\ lastOutcome' = "publish_ok"
    /\ job' = [job EXCEPT ![cur] = Logged(@, <<Line("sheet_updated")>>)]
    /\ pc' = "delay"
    /\ UNCHANGED <<store, queue, isProcessing, cur, shots, aiRes, pdf, clock,
                   admits, ret, calls, keyMissing>>

\* Publish throws: the catch logs it.
PublishThrows ==
    /\ pc = "publish"
    /\ faults < MaxFaults
    /\ faults' = faults + 1
    /\ lastOutcome' = "publish_threw"
    /\ job' = [job EXCEPT ![cur] =
          Logged(@, PublishCatchLogs("Sheet update API failed"))]
    /\ pc' = "delay"
    /\ UNCHANGED <<store, queue, isProcessing, cur, shots, aiRes, pdf, clock,
                   admits, ret, calls, keyMissing>>

\* The delay between jobs is over: the loop takes the next job or ends.
DelayDone ==
    /\ pc = "delay"
    /\ UNCHANGED faults
    /\ RunLoop(queue, store, job, calls)
    /\ UNCHANGED <<store, clock, admits, ret, keyMissing>>

Next ==
    \/ \E inp \in Inputs : AddJob(inp.articleId, inp.refs, inp.sheet)
    \/ ImportFails
    \/ ImportDone
    \/ RenderDownloadFails
    \/ \E mask \in Masks : RenderZero(mask)
    \/ \E mask \in Masks : RenderReturns(mask)
    \/ AnalyzeReturns
    \/ AnalyzeThrows
    \/ ReportReturns
    \/ ReportThrows
    \/ PublishReturns
    \/ PublishThrows
    \/ DelayDone

Spec == Init /\ [][Next]_vars

\* The steps of the worker: the continuations of its awaits.
Worker ==
    \/ ImportFails
    \/ ImportDone
    \/ RenderDownloadFails
    \/ \E mask \in Masks : RenderZero(mask)
    \/ \E mask \in Masks : RenderReturns(mask)
    \/ AnalyzeReturns
    \/ AnalyzeThrows
    \/ ReportReturns
    \/ ReportThrows
    \/ PublishReturns
    \/ PublishThrows
    \/ DelayDone

\* Every call the worker awaits returns or throws in the end, the delay
\* timer fires, and the event loop then runs the continuation.
LiveSpec == Init /\ [][Next]_vars /\ WF_vars(Worker)

\* ----------------------------------------------------------------- claims
StoreIds == {store[i] : i \in 1..Len(store)}

\* An addJob call is the only step that changes admits.
AdmitStep == admits' = admits + 1

Occurrences(q, id) == Cardinality({i \in 1..Len(q) : q[i] = id})

ErrorLines(r, msg) ==
    Len(SelectSeq(r.processingLogs,
                  LAMBDA l : l.tag = "error" /\ l.msg = msg))

AllErrorLines(r) ==
    Len(SelectSeq(r.processingLogs, LAMBDA l : l.tag = "error"))

\* C1: in every reachable state, for every articleId at most one record of
\* the store is Pending or Processing.
C1_OneActivePerArticle ==
    \A x \in StoreIds, y \in StoreIds :
        (/\ job[x].articleId = job[y].articleId
         /\ IsActive(job[x])
         /\ IsActive(job[y])) => x = y

\* C2: an addJob for an articleId that has a Pending or Processing record
\* in the store returns that record's id, creates no record, appends
\* nothing to the queue and leaves the record unchanged.
C2_DuplicateAdmitReturnsExisting ==
    [][AdmitStep =>
          \A id \in StoreIds :
              (/\ job[id].articleId = job'[ret'.id].articleId
               /\ IsActive(job[id]))
              => (/\ ret'.id = id
                  /\ ~ret'.created
                  /\ job' = job
                  /\ store' = store
                  /\ queue' = queue)]_vars

\* C3: the record a creating addJob returns is Pending, with retries 0 and
\* no startedAt, when addJob returns.
C3_NewJobReturnedPending ==
    [][(AdmitStep /\ ret'.created) =>
          (/\ job'[ret'.id].status = "pending"
           /\ job'[ret'.id].retries = 0
           /\ ~job'[ret'.id].startedAt)]_vars

\* C4 as claimed: a job without references never becomes Failed.
C4_NoRefsNeverFailed ==
    \A id \in Ids : job[id].refs = 0 => job[id].status # "failed"

\* C4 as amended: for a job without references Analyze is never called and
\* no analysis or report URL is ever stored; an attempt whose Render returns
\* an image ends Completed with the images; the job is Failed only after
\* maxRetries attempts that each threw, in Render or before it.
C4_NoRefsSkipsAnalyze ==
    [][\A id \in DOMAIN job' :
          job'[id].refs = 0 =>
             (/\ calls'[id].analyze = 0
              /\ calls'[id].report = 0
              /\ job'[id].aiAnalysis = "none"
              /\ ~job'[id].pdfUrl
              /\ (job'[id].status = "failed" =>
                     /\ job'[id].retries = MaxRetries
                     /\ AllErrorLines(job'[id]) = MaxRetries
                     /\ calls'[id].render \in {0, MaxRetries}
                     /\ Len(job'[id].screenshots) = 0)
              /\ (pc = "render" /\ cur = id /\ lastOutcome' = "render_ok" =>
                     /\ job'[id].status = "completed"
                     /\ job'[id].completedAt
                     /\ Len(job'[id].screenshots) > 0))]_vars

\* A job without references has completed with its images.
C4_Witness ==
    \E id \in Ids :
        /\ job[id].refs = 0
        /\ job[id].status = "completed"
        /\ Len(job[id].screenshots) > 0
        /\ calls[id].render > 0

\* C5: a Render that captured no image goes through handleJobError: retries
\* grows by one, the error is the zero-image message, the job is not
\* completed; below maxRetries it is Pending again and its id is appended
\* to the queue, at maxRetries it is Failed.  Three zero-image attempts
\* leave the job Failed with retries 3 and that error.
C5_ZeroImagesRetried ==
    [][/\ (pc = "render" /\ lastOutcome' = "render_zero") =>
             (/\ job'[cur].retries = job[cur].retries + 1
              /\ job'[cur].error = ErrZero
              /\ job'[cur].screenshots = <<>>
              /\ IF job'[cur].retries < MaxRetries
                 THEN /\ job'[cur].status = "pending"
                      /\ queue' = Append(queue, cur)
                 ELSE /\ job'[cur].status = "failed"
                      /\ job'[cur].completedAt
                      /\ queue' = queue)
       /\ \A id \in DOMAIN job' :
             ErrorLines(job'[id], ErrZero) = MaxRetries =>
                (/\ job'[id].status = "failed"
                 /\ job'[id].retries = MaxRetries
                 /\ job'[id].error = ErrZero)]_vars

\* A job has failed after three zero-image attempts.
C5_Witness ==
    \E id \in Ids :
        /\ ErrorLines(job[id], ErrZero) = MaxRetries
        /\ job[id].status = "failed"

DegradeTags ==
    {"ai_failed", "continuing_without_ai", "pdf_failed",
     "continuing_without_pdf", "sheet_failed"}

\* The lines of a job's log that the catch of a degraded stage wrote.
DegradeLines(r) ==
    Len(SelectSeq(r.processingLogs, LAMBDA l : l.tag \in DegradeTags))

AnalyzeDegrades == pc = "analyze" /\ lastOutcome' = "analyze_threw"
ReportDegrades == pc = "report" /\ lastOutcome' = "report_threw"
PublishDegrades == pc = "publish" /\ lastOutcome' = "publish_threw"

HasLine(r, tag) ==
    \E i \in 1..Len(r.processingLogs) : r.processingLogs[i].tag = tag

\* C6: when Analyze, Report or Publish fails, the job is Completed in that
\* same attempt, with no retry and no error recorded, keeping the images
\* and the outputs of the stages that succeeded and lacking the output of
\* the stage that failed.
C6_DegradeStillCompletes ==
    [][/\ AnalyzeDegrades =>
             (/\ job'[cur].status = "completed"
              /\ job'[cur].completedAt
              /\ job'[cur].screenshots = shots
              /\ Len(shots) > 0
              /\ job'[cur].aiAnalysis = "none"
              /\ ~job'[cur].pdfUrl
              /\ job'[cur].retries = job[cur].retries
              /\ job'[cur].error = job[cur].error)
       /\ ReportDegrades =>
             (/\ job'[cur].status = "completed"
              /\ job'[cur].completedAt
              /\ job'[cur].screenshots = shots
              /\ Len(shots) > 0
              /\ job'[cur].aiAnalysis = "ok"
              /\ ~job'[cur].pdfUrl
              /\ job'[cur].retries = job[cur].retries
              /\ job'[cur].error = job[cur].error)
       /\ PublishDegrades =>
             (/\ job'[cur].status = "completed"
              /\ job[cur].status = "completed"
              /\ Len(job'[cur].screenshots) > 0
              /\ job'[cur].screenshots = job[cur].screenshots
              /\ job'[cur].aiAnalysis = "ok"
              /\ job'[cur].pdfUrl
              /\ job'[cur].retries = job[cur].retries
              /\ job'[cur].error = job[cur].error)]_vars

\* Render returned 5 images and Analyze threw: the job is Completed with
\* the 5 images, no analysis and no report URL.
C6_Witness ==
    \E id \in Ids :
        /\ HasLine(job[id], "ai_failed")
        /\ job[id].status = "completed"
        /\ Len(job[id].screenshots) = NumAngles
        /\ job[id].aiAnalysis = "none"
        /\ ~job[id].pdfUrl

\* C7 as claimed: each failure of Analyze, of Report or of Publish appends
\* exactly one line to the job's log.
C7_OneLinePerDegrade ==
    [][(AnalyzeDegrades \/ ReportDegrades \/ PublishDegrades) =>
          DegradeLines(job'[cur]) = DegradeLines(job[cur]) + 1]_vars

\* C7 as amended: a failure of Analyze or of Report appends exactly two
\* lines (the failure and the notice that the job continues without the
\* stage's output), a failure of Publish exactly one, and no other step
\* appends such a line.
C7_LinesPerDegrade ==
    [][/\ (AnalyzeDegrades \/ ReportDegrades) =>
             DegradeLines(job'[cur]) = DegradeLines(job[cur]) + 2
       /\ PublishDegrades =>
             DegradeLines(job'[cur]) = DegradeLines(job[cur]) + 1
       /\ ~(AnalyzeDegrades \/ ReportDegrades \/ PublishDegrades) =>
             \A id \in DOMAIN job \cap DOMAIN job' :
                 DegradeLines(job'[id]) = DegradeLines(job[id])]_vars

\* A job's Analyze has failed, and a job's Publish has failed.
C7_Witness ==
    /\ \E id \in Ids : HasLine(job[id], "continuing_without_ai")
    /\ \E id \in Ids : HasLine(job[id], "sheet_failed")

\* C8: every job has retries <= maxRetries, and a Failed job has
\* retries = maxRetries.
C8_RetriesBounded ==
    \A id \in Ids :
        /\ job[id].retries <= job[id].maxRetries
        /\ job[id].status = "failed" => job[id].retries = job[id].maxRetries

\* A job is Failed.
C8_Witness == \E id \in Ids : job[id].status = "failed" /\ job[id].retries > 0

\* C9: a Pending or Processing job has retries < maxRetries, and a job
\* with retries = maxRetries is Failed.
C9_ActiveBelowMax ==
    \A id \in Ids :
        /\ IsActive(job[id]) => job[id].retries < job[id].maxRetries
        /\ job[id].retries = job[id].maxRetries => job[id].status = "failed"

\* A job is Pending again after its second failure, one below the limit.
C9_Witness ==
    \E id \in Ids :
        /\ job[id].status = "pending"
        /\ job[id].retries = job[id].maxRetries - 1

Transitions ==
    {<<"pending", "processing">>, <<"processing", "completed">>,
     <<"processing", "pending">>, <<"processing", "failed">>}

\* C10: a job's status changes only Pending -> Processing, Processing ->
\* Completed, Processing -> Pending and Processing -> Failed; the status of
\* a Completed or Failed job never changes and its id is not appended to
\* the queue.
C10_StatusTransitions ==
    [][\A id \in DOMAIN job \cap DOMAIN job' :
          /\ \/ job'[id].status = job[id].status
             \/ <<job[id].status, job'[id].status>> \in Transitions
          /\ job[id].status \in {"completed", "failed"} =>
                /\ job'[id].status = job[id].status
                /\ Occurrences(queue', id) <= Occurrences(queue, id)
                /\ Occurrences(queue', id) = 0]_vars

\* A job is Failed, another is Completed, and the worker has gone on and
\* drained the queue.
C10_Witness ==
    /\ \E id \in Ids : job[id].status = "failed"
    /\ \E id \in Ids : job[id].status = "completed"
    /\ pc = "idle"

\* C11 as claimed: no job is Completed while a stage call of it, Publish
\* included, is still in flight.
C11_CompletedOnlyAfterPublish ==
    \A id \in Ids :
        job[id].status = "completed" =>
            ~(cur = id /\ pc \in {"render", "analyze", "report", "publish"})

\* C12: a record that is Processing is in the store after every step, an
\* addJob with its eviction included.
C12_ProcessingNeverEvicted ==
    [][\A id \in StoreIds :
          job[id].status = "processing" => id \in {store'[i] : i \in 1..Len(store')}]_vars

\* The eviction met a Processing record among the oldest and kept it: the
\* store is over MAX_JOBS and holds the Processing record.
C12_Witness ==
    /\ Len(store) > MAX_JOBS
    /\ \E id \in StoreIds :
          /\ job[id].status = "processing"
          /\ \A other \in StoreIds : job[id].createdAt <= job[other].createdAt

\* C13 as claimed: when addJob has returned the store holds at most
\* MAX_JOBS records.
C13_StoreWithinBound ==
    [][AdmitStep => Len(store') <= MAX_JOBS]_vars

\* The records an addJob step removed from the Map: those of the store
\* before it, and the one it created, that the store after it lacks.
Evicted ==
    (StoreIds \cup (IF AdmitStep /\ ret'.created THEN {ret'.id} ELSE {}))
        \ {store'[i] : i \in 1..Len(store')}

\* createdAt of a record of the step: addJob stamps the record it creates
\* with the clock after the step.
CreatedAt(id) == IF id \in DOMAIN job THEN job[id].createdAt ELSE clock'

StartStep == pc \in {"idle", "delay"} /\ pc' = "import"

\* The queue the loop of a step reads: with the id an addJob pushed.
QueueRead ==
    IF AdmitStep /\ ret'.created THEN Append(queue, ret'.id) ELSE queue

\* C15 as claimed: every id that waited in the queue when a job failed is
\* started before that job's next attempt: when a job that has failed
\* before is taken off the queue, no id waits in front of it.
C15_WaitingStartBeforeRetry ==
    [][(StartStep /\ job'[cur'].retries > 0) => cur' = Head(QueueRead)]_vars

Processing == {id \in Ids : job[id].status = "processing"}

\* C16: at most one job is Processing, and it is the one the single worker
\* loop holds; the worker flag is set exactly while that loop runs; an
\* addJob that finds the flag set leaves the loop where it is and starts
\* nothing.
C16_SingleWorker ==
    [][/\ Cardinality(Processing') <= 1
       /\ \A id \in Processing' : isProcessing' /\ cur' = id
       /\ isProcessing' <=> pc' # "idle"
       /\ (AdmitStep /\ isProcessing) =>
             /\ UNCHANGED <<isProcessing, pc, cur>>
             /\ Processing' = Processing
             /\ ret'.created => job'[ret'.id].status = "pending"]_vars

\* An addJob came while the worker was processing a job: the new job
\* waits in the queue.
C16_Witness ==
    /\ Processing # {}
    /\ ret.created
    /\ ret.id \notin Processing
    /\ job[ret.id].status = "pending"
    /\ job[ret.id].retries = 0
    /\ InStore(queue, ret.id)

FatalOutcomes == {"render_zero", "render_download_failed", "import_failed"}

\* C17: a step in which Analyze, Report or Publish fails leaves the job's
\* retries, its error and the queue as they were and the job neither
\* Failed nor Pending; a job's retries or error change, it becomes Failed,
\* goes back to Pending or is appended to the queue again only in a step in
\* which Render captured nothing or an exception escaped
\* executeQAProcessing, and then retries grows by one.
C17_DegradeNeverRetries ==
    [][/\ (AnalyzeDegrades \/ ReportDegrades \/ PublishDegrades) =>
             /\ job'[cur].retries = job[cur].retries
             /\ job'[cur].error = job[cur].error
             /\ job'[cur].status \notin {"failed", "pending"}
             /\ queue' = queue
       /\ \A id \in DOMAIN job \cap DOMAIN job' :
             (\/ job'[id].retries # job[id].retries
              \/ job'[id].error # job[id].error
              \/ job'[id].status = "failed" /\ job[id].status # "failed"
              \/ job'[id].status = "pending" /\ job[id].status # "pending"
              \/ Occurrences(queue', id) > Occurrences(queue, id))
             => (/\ id = cur
                 /\ pc \in {"import", "render"}
                 /\ lastOutcome' \in FatalOutcomes
                 /\ job'[id].retries = job[id].retries + 1)]_vars

\* A job whose Report failed is Completed with no retry and no error,
\* and another job has been through the retry policy.
C17_Witness ==
    /\ \E id \in Ids :
          /\ HasLine(job[id], "pdf_failed")
          /\ job[id].status = "completed"
          /\ job[id].retries = 0
          /\ job[id].error = ""
    /\ \E id \in Ids : job[id].retries > 0

\* C18 as claimed: the snapshot's pending, processing, completed and failed
\* are each the number of records of the store with that status, their sum
\* is its total, and its worker flag is the worker's.
C18_SnapshotCountsByStatus ==
    LET snap == GetQueueStatus(store, job, queue, isProcessing)
        Count(status) == Cardinality({id \in StoreIds : job[id].status = status})
    IN /\ snap.pending = Count("pending")
       /\ snap.processing = Count("processing")
       /\ snap.completed = Count("completed")
       /\ snap.failed = Count("failed")
       /\ snap.pending + snap.processing + snap.completed + snap.failed
              = snap.total
       /\ snap.isProcessing = isProcessing

IsPrefix(a, b) == Len(a) <= Len(b) /\ SubSeq(b, 1, Len(a)) = a

\* C19: in every step the log of every job before the step is a prefix of
\* its log after it: lines are appended, never removed, reordered or
\* rewritten, across retries and after the job is Failed.
C19_LogsOnlyGrow ==
    [][\A id \in DOMAIN job \cap DOMAIN job' :
          IsPrefix(job[id].processingLogs, job'[id].processingLogs)]_vars

\* A Failed job's log still begins with its creation and holds the start
\* of each of its attempts.
C19_Witness ==
    \E id \in Ids :
        /\ job[id].status = "failed"
        /\ job[id].processingLogs[1].tag = "created"
        /\ Len(SelectSeq(job[id].processingLogs,
                         LAMBDA l : l.tag = "started")) = MaxRetries
        /\ job[id].processingLogs[Len(job[id].processingLogs)].tag
              = "failed_permanently"

TotalCalls(c) == c.render + c.analyze + c.report + c.publish

\* C20: a step calls at most one stage, of the worker's job, and only
\* when the stage before it has just returned: Render after the imports,
\* Analyze when Render returned at least one image and the job has
\* references, Report when Analyze returned a result, Publish when Report
\* returned a URL and the job has its sheet and row; so no job has had
\* more calls of a stage than of the stage before it.
C20_StagesInOrder ==
    [][\A id \in DOMAIN calls \cap DOMAIN calls' :
          LET c == calls[id]
              d == calls'[id]
          IN \/ d = c
             \/ /\ id = cur
                /\ TotalCalls(d) = TotalCalls(c) + 1
                /\ d.render >= d.analyze
                /\ d.analyze >= d.report
                /\ d.report >= d.publish
                /\ \/ /\ d.render = c.render + 1
                      /\ pc = "import"
                      /\ pc' = "render"
                   \/ /\ d.analyze = c.analyze + 1
                      /\ pc = "render"
                      /\ pc' = "analyze"
                      /\ lastOutcome' = "render_ok"
                      /\ Len(shots') > 0
                      /\ job[id].refs > 0
                   \/ /\ d.report = c.report + 1
                      /\ pc = "analyze"
                      /\ pc' = "report"
                      /\ lastOutcome' = "analyze_ok"
                      /\ job'[id].aiAnalysis = "ok"
                   \/ /\ d.publish = c.publish + 1
                      /\ pc = "report"
                      /\ pc' = "publish"
                      /\ lastOutcome' = "report_ok"
                      /\ job'[id].pdfUrl
                      /\ job[id].sheet]_vars

\* One job has been through the four stages, and another has had its
\* Render and, for want of references, nothing more.
C20_Witness ==
    /\ \E id \in Ids :
          /\ calls[id] = [render |-> 1, analyze |-> 1, report |-> 1, publish |-> 1]
          /\ HasLine(job[id], "sheet_updated")
    /\ \E id \in Ids :
          /\ calls[id] = [render |-> 1, analyze |-> 0, report |-> 0, publish |-> 0]
          /\ job[id].status = "completed"

\* C21: whenever the worker flag is false the queue is empty.
C21_IdleMeansEmptyQueue == ~isProcessing => queue = <<>>

\* The worker has drained the queue and stopped after a retry and after a
\* job that was admitted while it was busy.
C21_Witness ==
    /\ ~isProcessing
    /\ clock >= 2
    /\ \E id \in Ids : job[id].retries > 0 /\ job[id].status = "completed"

\* The lines a step appended to the log of the worker's job.
NewLines ==
    SubSeq(job'[cur].processingLogs, Len(job[cur].processingLogs) + 1,
           Len(job'[cur].processingLogs))

TaggedLines(lines, tag) == SelectSeq(lines, LAMBDA l : l.tag = tag)

\* The images the step that ends a Render leaves with the attempt.
RenderedImages == IF pc' = "analyze" THEN shots' ELSE job'[cur].screenshots

C23_FailedAnglesLogged ==
    [][(pc = "render" /\ lastOutcome' = "render_zero") =>
          Len(TaggedLines(NewLines, "shot_failed")) = NumAngles]_vars

\* C24 as claimed, its safety half: a record leaves the store only when it
\* is Completed or Failed, and the worker takes the head of the queue, so
\* that no admitted job is removed or skipped before it has been run to a
\* terminal status.
C24_NoJobLostBeforeTerminal ==
    [][/\ \A id \in Evicted :
             id \in DOMAIN job /\ job[id].status \in {"completed", "failed"}
       /\ StartStep => cur' = Head(QueueRead)]_vars

\* C25: a record of the store is Pending exactly when its id is in the
\* queue, and no id occurs twice in the queue.
C25_PendingIffQueued ==
    /\ \A id \in StoreIds : job[id].status = "pending" <=> InStore(queue, id)
    /\ \A i, j \in 1..Len(queue) : queue[i] = queue[j] => i = j

\* Two records wait in the queue, one of them for its retry, while a
\* third record of the store is not Pending.
C25_Witness ==
    /\ Len(queue) = 2
    /\ \E id \in StoreIds : InStore(queue, id) /\ job[id].retries > 0
    /\ \E id \in StoreIds : ~InStore(queue, id) /\ job[id].status = "processing"

\* C26 as claimed: every id of the queue is the id of a record of the
\* store.
C26_NoDanglingQueueId == \A i \in 1..Len(queue) : queue[i] \in StoreIds

\* The attempts of a job: the times processJob started it.
Attempts(r) == Len(TaggedLines(r.processingLogs, "started"))

\* C27: the worker starts a job for at most the maxRetries-th time, and
\* calls Render for it at most maxRetries times, once in an attempt.
C27_AtMostMaxRetriesRuns ==
    [][/\ StartStep =>
             /\ Attempts(job'[cur']) <= MaxRetries
             /\ Attempts(job'[cur']) = job'[cur'].retries + 1
       /\ (pc = "import" /\ pc' = "render") =>
             /\ calls'[cur].render <= MaxRetries
             /\ calls'[cur].render <= Attempts(job'[cur])]_vars

\* A job has had its third Render and is Failed.
C27_Witness ==
    \E id \in Ids :
        /\ calls[id].render = MaxRetries
        /\ Attempts(job[id]) = MaxRetries
        /\ job[id].status = "failed"

\* C28: a step in which an attempt fails increments retries by exactly
\* one, writes one error line and lengthens the queue by at most the one
\* occurrence of the job's id; after it retries equals the number of error
\* lines and the number of attempts of the job.
C28_FailureHandledOnce ==
    [][/\ (pc \in {"import", "render"} /\ lastOutcome' \in FatalOutcomes) =>
             /\ job'[cur].retries = job[cur].retries + 1
             /\ AllErrorLines(job'[cur]) = AllErrorLines(job[cur]) + 1
             /\ Occurrences(queue', cur) <= 1
             /\ \/ queue' = queue
                \/ queue' = Append(queue, cur)
             /\ job'[cur].retries = AllErrorLines(job'[cur])
             /\ job'[cur].retries = Attempts(job'[cur])]_vars

\* A job waits once in the queue for its third attempt after two failures.
C28_Witness ==
    \E id \in Ids :
        /\ job[id].retries = 2
        /\ AllErrorLines(job[id]) = 2
        /\ Attempts(job[id]) = 2
        /\ Occurrences(queue, id) = 1

\* C29: every record with a report URL has an analysis, every record with
\* an analysis has at least one image, and a Failed record has no image,
\* no analysis and no report URL.
C29_OutputsOnlyAsStagesSucceed ==
    \A id \in Ids :
        /\ job[id].pdfUrl => job[id].aiAnalysis # "none"
        /\ job[id].aiAnalysis # "none" => Len(job[id].screenshots) >= 1
        /\ job[id].status = "failed" =>
              /\ job[id].screenshots = <<>>
              /\ job[id].aiAnalysis = "none"
              /\ ~job[id].pdfUrl

\* One record is Completed with images, an analysis and a report URL,
\* and another is Failed.
C29_Witness ==
    /\ \E id \in Ids :
          /\ job[id].status = "completed"
          /\ job[id].pdfUrl
          /\ job[id].aiAnalysis = "ok"
          /\ Len(job[id].screenshots) >= 1
    /\ \E id \in Ids : job[id].status = "failed"

\* The times a job was put back in the queue for a retry.
Requeues(r) == Len(TaggedLines(r.processingLogs, "retry_scheduled"))

\* C30: once the admissions have stopped the worker drains the queue and
\* clears its flag for good, and no job is put back in the queue
\* maxRetries times.
C30_WorkerDrains ==
    /\ <>[](~isProcessing /\ queue = <<>>)
    /\ [](\A id \in Ids : Requeues(job[id]) < MaxRetries)

\* All the admissions are made, a job has been put back in the queue
\* twice, and the worker has drained the queue and stopped.
C30_Witness ==
    /\ admits = MaxAdmits
    /\ ~isProcessing
    /\ queue = <<>>
    /\ \E id \in Ids : Requeues(job[id]) = MaxRetries - 1

====
